---- MODULE Spec2Model ----
(***************************************************************************)
(* Model of material-price.py: one run of main(), which refreshes a Zoho   *)
(* access token, downloads one S3 object to a temporary file, resolves the *)
(* recipient ids from ZOHO_CLIQ_USER_IDS and uploads the file to each one. *)
(* Strings that the code parses are sequences of one-character strings;    *)
(* remote services answer nondeterministically.                            *)
(***************************************************************************)
EXTENDS Integers, Sequences, FiniteSets, TLC

\* env            the environment the module-level settings are read from
\* pc, error      main()'s position; the exception that left main(), if any
\* access_token   the value get_zoho_access_token returned
\* tokenResp      the token endpoint's answer; tokenCalls counts the POSTs sent
\* downloadCalls  calls of s3_client.download_file
\* fileExists     the temporary file is on disk; fileWritten: it holds the object
\* user_ids       the list get_user_ids returned
\* attempts       the upload POSTs sent, with the answer each one got
\* results        main's results list
\* unlinkCalls    calls of os.unlink; unlinkDone: those that removed the file
\* warning        the "could not delete temp file" warning was printed
\* successful     the count printed in the summary
VARIABLES env, pc, error, access_token, tokenResp, tokenCalls, downloadCalls,
          fileExists, fileWritten, user_ids, attempts, results,
          unlinkCalls, unlinkDone, warning, successful

vars == <<env, pc, error, access_token, tokenResp, tokenCalls, downloadCalls,
          fileExists, fileWritten, user_ids, attempts, results,
          unlinkCalls, unlinkDone, warning, successful>>

-----------------------------------------------------------------------------
(* Bounds and value universes                                              *)

MaxLen == 5

Chars == {",", " ", "a"}

Strings == UNION {[1..n -> Chars] : n \in 0..MaxLen}

None == "<None>"

EnvValues == {None, "", "x"}

TokenStatuses == {200, 201, 300, 404, 500}

TokenBodies == {"text", "json_list", "json_no_token", "json_empty_token", "json_token"}

UploadStatuses == {200, 201, 500}

UploadBodies == {"json_plain", "json_error", "text"}

NetworkError == [status |-> 0, body |-> "none"]

TokenResponses == [status : TokenStatuses, body : TokenBodies] \cup {NetworkError}

UploadResponses == [status : UploadStatuses, body : UploadBodies] \cup {NetworkError}

DownloadOutcomes == {"ok", "ClientError", "OtherError"}

-----------------------------------------------------------------------------
(* Configuration read from the environment at import time                  *)

ZOHO_REFRESH_TOKEN == env.ZOHO_REFRESH_TOKEN

ZOHO_CLIENT_ID == env.ZOHO_CLIENT_ID

ZOHO_CLIENT_SECRET == env.ZOHO_CLIENT_SECRET

ZOHO_CLIQ_USER_IDS == env.ZOHO_CLIQ_USER_IDS

AWS_S3_BUCKET == env.AWS_S3_BUCKET

AWS_S3_FILE_KEY == env.AWS_S3_FILE_KEY

\* Python truthiness of an optional string: None and "" are falsy.
Truthy(v) == v # None /\ v # ""

-----------------------------------------------------------------------------
(* Pure helpers                                                            *)

IsSpace(c) == c = " "

RECURSIVE LStrip(_)
LStrip(s) ==
    IF s # <<>> /\ IsSpace(Head(s)) THEN LStrip(Tail(s)) ELSE s

RECURSIVE RStrip(_)
RStrip(s) ==
    IF s # <<>> /\ IsSpace(s[Len(s)]) THEN RStrip(SubSeq(s, 1, Len(s) - 1)) ELSE s

StripLeftOnly(s) == LStrip(s)

\* str.strip(): whitespace removed at both ends, interior kept.
Strip(s) == RStrip(LStrip(s))

\* str.split(","): one more piece than there are commas, empty pieces kept.
RECURSIVE Split(_)
Split(s) ==
    IF \A i \in 1..Len(s) : s[i] # ","
    THEN <<s>>
    ELSE LET k == CHOOSE i \in 1..Len(s) :
                      s[i] = "," /\ \A j \in 1..(i - 1) : s[j] # ","
         IN  <<SubSeq(s, 1, k - 1)>> \o Split(SubSeq(s, k + 1, Len(s)))

KeepEveryEntry(uid) == TRUE

\* the comprehension's filter "if uid.strip()"
KeepEntry(uid) == Strip(uid) # <<>>

\* [uid.strip() for uid in ZOHO_CLIQ_USER_IDS.split(",") if uid.strip()]
ParseUserIds(s) ==
    LET parts == Split(s)
        kept  == SelectSeq(parts, KeepEntry)
    IN  [i \in 1..Len(kept) |-> Strip(kept[i])]

AnyCredentialPresent ==
    Truthy(ZOHO_REFRESH_TOKEN) \/ Truthy(ZOHO_CLIENT_ID) \/ Truthy(ZOHO_CLIENT_SECRET)

\* all([ZOHO_REFRESH_TOKEN, ZOHO_CLIENT_ID, ZOHO_CLIENT_SECRET])
CredentialsPresent ==
    Truthy(ZOHO_REFRESH_TOKEN) /\ Truthy(ZOHO_CLIENT_ID) /\ Truthy(ZOHO_CLIENT_SECRET)

\* requests' Response.raise_for_status(): raises for 4xx and 5xx only.
RaiseForStatus(status) == status >= 400 /\ status < 600

\* Outcome of get_zoho_access_token once the POST was sent.
TokenError(r) ==
    IF r = NetworkError THEN "TokenRequestException"
    ELSE IF RaiseForStatus(r.status) THEN "TokenHTTPError"
    ELSE IF r.body = "text" THEN "TokenJSONDecodeError"
    ELSE IF r.body = "json_list" THEN "TokenAttributeError"
    ELSE IF r.body \in {"json_no_token", "json_empty_token"} THEN "TokenMissing"
    ELSE "none"

\* Keys of the JSON object a response body decodes to.
JsonKeys(body) == IF body = "json_error" THEN {"error", "message"} ELSE {"file_id"}

\* Outcome of upload_file_to_zoho_cliq: an exception tag or "none".
UploadError(r) ==
    IF r = NetworkError THEN "UploadRequestException"
    ELSE IF r.status = 200 /\ r.body = "text" THEN "UploadJSONDecodeError"
    ELSE "none"

\* The dict upload_file_to_zoho_cliq returns.
UploadResult(r) ==
    IF r.status = 200
    THEN [keys |-> JsonKeys(r.body), status_code |-> 0]
    ELSE [keys |-> {"error", "status_code"}, status_code |-> r.status]

\* sum(1 for r in results if "error" not in r.get("result", {}))
CountSuccessful(rs) ==
    Cardinality({i \in 1..Len(rs) : "error" \notin rs[i].result.keys})

-----------------------------------------------------------------------------
(* State machine                                                           *)

Init ==
    /\ env \in [ZOHO_REFRESH_TOKEN : EnvValues,
                ZOHO_CLIENT_ID     : EnvValues,
                ZOHO_CLIENT_SECRET : EnvValues,
                ZOHO_CLIQ_USER_IDS : Strings,
                AWS_S3_BUCKET      : EnvValues,
                AWS_S3_FILE_KEY    : EnvValues]
    /\ pc = "start"
    /\ error = "none"
    /\ access_token = None
    /\ tokenResp = NetworkError
    /\ tokenCalls = 0
    /\ downloadCalls = 0
    /\ fileExists = FALSE
    /\ fileWritten = FALSE
    /\ user_ids = <<>>
    /\ attempts = <<>>
    /\ results = <<>>
    /\ unlinkCalls = 0
    /\ unlinkDone = 0
    /\ warning = FALSE
    /\ successful = 0

\* An exception leaves main(): nothing after the raise runs.
Raise(tag) ==
    /\ pc' = "aborted"
    /\ error' = tag

\* Step 1: access_token = get_zoho_access_token()
GetZohoAccessToken ==
    /\ pc = "start"
    /\ IF ~CredentialsPresent
       THEN /\ Raise("MissingCredentials")
            /\ UNCHANGED <<access_token, tokenResp, tokenCalls>>
       ELSE \E r \in TokenResponses :
              /\ tokenCalls' = tokenCalls + 1
              /\ tokenResp' = r
              /\ IF TokenError(r) # "none"
                 THEN /\ Raise(TokenError(r))
                      /\ UNCHANGED access_token
                 ELSE /\ access_token' = "tok"
                      /\ pc' = "s3check"
                      /\ UNCHANGED error
    /\ UNCHANGED <<env, downloadCalls, fileExists, fileWritten, user_ids,
                   attempts, results, unlinkCalls, unlinkDone, warning, successful>>

\* Step 2: the bucket/key check, then the NamedTemporaryFile(delete=False).
CreateTempFile ==
    /\ pc = "s3check"
    /\ IF ~Truthy(AWS_S3_BUCKET) \/ ~Truthy(AWS_S3_FILE_KEY)
       THEN /\ Raise("MissingS3Config")
            /\ UNCHANGED fileExists
       ELSE /\ fileExists' = TRUE
            /\ pc' = "download"
            /\ UNCHANGED error
    /\ UNCHANGED <<env, access_token, tokenResp, tokenCalls, downloadCalls,
                   fileWritten, user_ids, attempts, results, unlinkCalls,
                   unlinkDone, warning, successful>>

DownloadIgnoringFailure ==
    /\ pc = "download"
    /\ \E o \in DownloadOutcomes :
         /\ downloadCalls' = downloadCalls + 1
         /\ fileWritten' = (o = "ok")
         /\ pc' = "ids"
         /\ UNCHANGED error
    /\ UNCHANGED <<env, access_token, tokenResp, tokenCalls, fileExists,
                   user_ids, attempts, results, unlinkCalls, unlinkDone,
                   warning, successful>>

\* download_file_from_s3(AWS_S3_BUCKET, AWS_S3_FILE_KEY, local_file_path)
DownloadFileFromS3 ==
    /\ pc = "download"
    /\ \E o \in DownloadOutcomes :
         /\ downloadCalls' = downloadCalls + 1
         /\ IF o = "ok"
            THEN /\ fileWritten' = TRUE
                 /\ pc' = "ids"
                 /\ UNCHANGED error
            ELSE /\ Raise(IF o = "ClientError" THEN "S3DownloadFailed" ELSE "S3OtherError")
                 /\ UNCHANGED fileWritten
    /\ UNCHANGED <<env, access_token, tokenResp, tokenCalls, fileExists,
                   user_ids, attempts, results, unlinkCalls, unlinkDone,
                   warning, successful>>

\* Step 3: user_ids = get_user_ids()
GetUserIds ==
    /\ pc = "ids"
    /\ IF ZOHO_CLIQ_USER_IDS = <<>>
       THEN /\ Raise("NoUserIds")
            /\ UNCHANGED user_ids
       ELSE IF ParseUserIds(ZOHO_CLIQ_USER_IDS) = <<>>
       THEN /\ Raise("EmptyUserIds")
            /\ UNCHANGED user_ids
       ELSE /\ user_ids' = ParseUserIds(ZOHO_CLIQ_USER_IDS)
            /\ pc' = "upload"
            /\ UNCHANGED error
    /\ UNCHANGED <<env, access_token, tokenResp, tokenCalls, downloadCalls,
                   fileExists, fileWritten, attempts, results, unlinkCalls,
                   unlinkDone, warning, successful>>

\* Step 4: one iteration of "for user_id in user_ids".
UploadFileToZohoCliq ==
    /\ pc = "upload"
    /\ Len(attempts) < Len(user_ids)
    /\ LET user_id == user_ids[Len(attempts) + 1] IN
       \E r \in UploadResponses :
         /\ attempts' = Append(attempts, [user_id |-> user_id, response |-> r])
         /\ IF UploadError(r) # "none"
            THEN /\ Raise(UploadError(r))
                 /\ UNCHANGED results
            ELSE /\ results' = Append(results,
                                      [user_id |-> user_id, result |-> UploadResult(r)])
                 /\ UNCHANGED <<pc, error>>
    /\ UNCHANGED <<env, access_token, tokenResp, tokenCalls, downloadCalls,
                   fileExists, fileWritten, user_ids, unlinkCalls, unlinkDone,
                   warning, successful>>

\* The loop is exhausted: os.unlink(local_file_path) inside try/except.
Cleanup ==
    /\ pc = "upload"
    /\ Len(attempts) = Len(user_ids)
    /\ unlinkCalls' = unlinkCalls + 1
    /\ \E ok \in BOOLEAN :
         IF ok
         THEN /\ fileExists' = FALSE
              /\ unlinkDone' = unlinkDone + 1
              /\ UNCHANGED warning
         ELSE /\ warning' = TRUE
              /\ UNCHANGED <<fileExists, unlinkDone>>
    /\ pc' = "summary"
    /\ UNCHANGED <<env, error, access_token, tokenResp, tokenCalls, downloadCalls,
                   fileWritten, user_ids, attempts, results, successful>>

\* The summary count and "return results".
Summary ==
    /\ pc = "summary"
    /\ successful' = CountSuccessful(results)
    /\ pc' = "done"
    /\ UNCHANGED <<env, error, access_token, tokenResp, tokenCalls, downloadCalls,
                   fileExists, fileWritten, user_ids, attempts, results,
                   unlinkCalls, unlinkDone, warning>>

Next ==
    \/ GetZohoAccessToken
    \/ CreateTempFile
    \/ DownloadFileFromS3
    \/ GetUserIds
    \/ UploadFileToZohoCliq
    \/ Cleanup
    \/ Summary

Spec == Init /\ [][Next]_vars

-----------------------------------------------------------------------------
(* Reference definitions used by the properties                            *)

\* One left-to-right pass over the string: a comma closes the current entry,
\* blanks are kept only between two non-blank characters of one entry.
RECURSIVE RefScan(_, _, _, _)
RefScan(s, cur, pend, out) ==
    IF s = <<>>
    THEN IF cur # <<>> THEN Append(out, cur) ELSE out
    ELSE LET c == Head(s) IN
         IF c = ","
         THEN RefScan(Tail(s), <<>>, <<>>, IF cur # <<>> THEN Append(out, cur) ELSE out)
         ELSE IF c = " "
         THEN RefScan(Tail(s), cur, IF cur = <<>> THEN <<>> ELSE Append(pend, c), out)
         ELSE RefScan(Tail(s), cur \o pend \o <<c>>, <<>>, out)

RefUserIds(s) == RefScan(s, <<>>, <<>>, <<>>)

AllBlank(s) == \A i \in 1..Len(s) : s[i] \in {",", " "}

Missing(v) == v = None \/ v = ""

CredentialMissing ==
    \/ Missing(env.ZOHO_REFRESH_TOKEN)
    \/ Missing(env.ZOHO_CLIENT_ID)
    \/ Missing(env.ZOHO_CLIENT_SECRET)

RequiredSettingMissing ==
    \/ CredentialMissing
    \/ Missing(env.AWS_S3_BUCKET)
    \/ Missing(env.AWS_S3_FILE_KEY)
    \/ env.ZOHO_CLIQ_USER_IDS = <<>>

RunEnded == pc \in {"done", "aborted"}

UserIdErrors == {"NoUserIds", "EmptyUserIds"}

DownloadErrors == {"S3DownloadFailed", "S3OtherError"}

Is2xx(status) == status >= 200 /\ status < 300

-----------------------------------------------------------------------------
(* Properties                                                              *)

\* C1: once the recipients are resolved no error leaves main: every recipient
\* gets an upload attempt, each failed attempt (non-200 status or network
\* error) is recorded as an error entry, and the run never aborts.
C1_UploadFailureNeverAborts ==
    user_ids # <<>> =>
        /\ pc # "aborted"
        /\ pc \in {"summary", "done"} => Len(attempts) = Len(user_ids)
        /\ \A i \in 1..Len(attempts) :
              attempts[i].response.status # 200 =>
                  /\ i <= Len(results)
                  /\ "error" \in results[i].result.keys

\* C2: when the run has ended, on the success path or on any failure path, the
\* scratch file does not exist unless a deletion was tried and failed.
C2_NoScratchFileAfterRun ==
    (RunEnded /\ unlinkCalls = unlinkDone) => ~fileExists

\* C3: when a required setting is missing or empty, no token request, no
\* storage download and no upload ever happens in the run.
C3_ConfigErrorBeforeAnyNetworkCall ==
    RequiredSettingMissing =>
        (tokenCalls = 0 /\ downloadCalls = 0 /\ attempts = <<>>)

\* C4: if the storage download fails, main aborts with the download's error and
\* no upload is made, whatever the recipient configuration.
C4_DownloadFailureAborts ==
    (downloadCalls > 0 /\ ~fileWritten) =>
        /\ pc = "aborted"
        /\ error \in DownloadErrors
        /\ attempts = <<>>
        /\ results = <<>>

C4_Witness ==
    /\ downloadCalls = 1
    /\ ~fileWritten
    /\ pc = "aborted"
    /\ error = "S3DownloadFailed"
    /\ RefUserIds(env.ZOHO_CLIQ_USER_IDS) # <<>>

\* C5: with any credential absent or empty, get_zoho_access_token raises its
\* configuration error before any HTTP call, and the run performs no download
\* and no upload.
C5_MissingCredentialRaisesFirst ==
    CredentialMissing =>
        /\ tokenCalls = 0
        /\ downloadCalls = 0
        /\ attempts = <<>>
        /\ access_token = None
        /\ pc # "start" => (pc = "aborted" /\ error = "MissingCredentials")

C5_Witness ==
    /\ env.ZOHO_REFRESH_TOKEN = "x"
    /\ env.ZOHO_CLIENT_ID = ""
    /\ env.ZOHO_CLIENT_SECRET = "x"
    /\ pc = "aborted"
    /\ error = "MissingCredentials"
    /\ tokenCalls = 0

C7_ReportAndCountByStatus200 ==
    pc = "done" =>
        /\ Len(results) = Len(user_ids)
        /\ \A i \in 1..Len(results) : results[i].user_id = user_ids[i]
        /\ successful =
              Cardinality({i \in 1..Len(attempts) : attempts[i].response.status = 200})

\* C8: a recipient configuration that is empty or holds only commas and
\* whitespace makes get_user_ids raise, and main aborts with no upload.
C8_BlankRecipientsRaise ==
    AllBlank(env.ZOHO_CLIQ_USER_IDS) =>
        /\ attempts = <<>>
        /\ user_ids = <<>>
        /\ pc \notin {"upload", "summary", "done"}
        /\ (fileWritten /\ pc # "ids") => (pc = "aborted" /\ error \in UserIdErrors)

C8_Witness ==
    /\ env.ZOHO_CLIQ_USER_IDS = <<" ", ",", " ">>
    /\ fileWritten
    /\ pc = "aborted"
    /\ error = "EmptyUserIds"

\* C9: in every run no upload precedes a successful download, the scratch file
\* is not removed before the last upload attempt, and once uploads were
\* attempted the file is removed exactly once by the end of the run.
C9_RemovedExactlyOnceAfterUploads ==
    /\ attempts # <<>> => fileWritten
    /\ unlinkCalls > 0 => Len(attempts) = Len(user_ids)
    /\ unlinkDone <= 1
    /\ (RunEnded /\ attempts # <<>>) => unlinkDone = 1

\* C10: a token answer with a non-2xx status, or with a 2xx status and no
\* non-empty access_token, yields no token and aborts the run before any
\* download or upload.
C10_BadTokenAnswerAborts ==
    (tokenCalls > 0 /\ (~Is2xx(tokenResp.status) \/ tokenResp.body # "json_token")) =>
        /\ access_token = None
        /\ pc = "aborted"
        /\ downloadCalls = 0
        /\ attempts = <<>>

====
